---- MODULE Spec2Model ----
(***************************************************************************)
(* A model of the ledger store of LedgerApp (src/ledger.py): the Record    *)
(* dataclass with its JSON conversions, and LedgerStore with its record    *)
(* list, its category mapping, the CRUD operations, search and the JSON    *)
(* import and export.                                                      *)
(*                                                                         *)
(* Conventions of the model:                                               *)
(*  - a Python str is a TLA+ string; the text of a date in a file is a     *)
(*    sequence of one-character strings, so that formatting and parsing    *)
(*    are computed and not assumed;                                        *)
(*  - a dt.date is a tuple <<year, month, day>>;                           *)
(*  - a float amount is an integer (the model uses no fractional value);   *)
(*  - an Optional value is a sequence of length 0 (None) or 1;             *)
(*  - a dict read from JSON is a function whose DOMAIN holds the keys      *)
(*    that are present;                                                    *)
(*  - str(uuid.uuid4()) is the next element of Uuids: an id that no        *)
(*    earlier call returned and that no file written before holds;         *)
(*  - the built-in category names are transliterated to ASCII; NameOrder   *)
(*    lists all names of the model in the order Python's str comparison    *)
(*    gives the original names.                                            *)
(***************************************************************************)
EXTENDS Integers, Sequences, FiniteSets, TLC

VARIABLES records,     \* LedgerStore.records: the list of Record
          categories,  \* LedgerStore.categories: name -> category_type
          nextId,      \* index in Uuids of the next uuid4 to be drawn
          disk,        \* the file written by export_json (<<>>: no file yet)
          saved,       \* the records and categories export_json was called on
          op,          \* the last operation called on the store
          arg,         \* the record_id or the path it was called with (else None)
          before,      \* the number of records before the call
          ret,         \* what it returned: None <<>>, a Record <<r>>, or a list
          err,         \* the exception it raised ("" when it returned)
          editing_record_id  \* LedgerApp.editing_record_id (None <<>>, or <<id>>)

vars ==
    <<records, categories, nextId, disk, saved, op, arg, before, ret, err,
      editing_record_id>>

(***************************************************************************)
(* Bounds of the model.                                                    *)
(***************************************************************************)
MaxRecords == 2     \* add_record is not called on a longer list
MaxUuid == 2        \* number of uuid4 draws in one behaviour

(***************************************************************************)
(* Values.                                                                 *)
(***************************************************************************)
Uuids == <<"u1", "u2", "u3", "u4", "u5">>

None == <<>>
Some(x) == <<x>>

\* DEFAULT_CATEGORIES: gongzi = salary, licai = investment income,
\* zafei = sundries, canyin = food, jiaotong = transport, yule = leisure,
\* xuexi = study, yiliao = medical.
DEFAULT_CATEGORIES ==
    << <<"gongzi", "income">>, <<"licai", "income">>, <<"zafei", "expense">>,
       <<"canyin", "expense">>, <<"jiaotong", "expense">>, <<"yule", "expense">>,
       <<"xuexi", "expense">>, <<"yiliao", "expense">> >>

\* Python's order of the category names of the model: the empty string, the
\* ASCII names (fangzu = rent, lvyou = travel), then the built-in names by the
\* code points of their original spelling.
NameOrder == <<"", "fangzu", "lvyou", "jiaotong", "yiliao", "yule", "xuexi",
               "gongzi", "licai", "zafei", "canyin">>

NameRank(n) == CHOOSE i \in 1..Len(NameOrder) : NameOrder[i] = n

\* dict.get(key, default)
DictGet(d, k, default) == IF k \in DOMAIN d THEN d[k] ELSE default

\* d[k] = v
DictSet(d, k, v) == [x \in (DOMAIN d) \cup {k} |-> IF x = k THEN v ELSE d[x]]

EmptyDict == [x \in {} |-> ""]

(***************************************************************************)
(* dt.date: comparison, isoformat, fromisoformat.                          *)
(***************************************************************************)
DateLT(a, b) ==
    \/ a[1] < b[1]
    \/ a[1] = b[1] /\ a[2] < b[2]
    \/ a[1] = b[1] /\ a[2] = b[2] /\ a[3] < b[3]

DateLE(a, b) == a = b \/ DateLT(a, b)

IsLeap(y) == (y % 4 = 0) /\ ((y % 100 # 0) \/ (y % 400 = 0))

DaysInMonth(y, m) ==
    IF m = 2 THEN (IF IsLeap(y) THEN 29 ELSE 28)
    ELSE IF m \in {4, 6, 9, 11} THEN 30 ELSE 31

DigitChars == <<"0", "1", "2", "3", "4", "5", "6", "7", "8", "9">>

IsDigit(c) == \E i \in 1..10 : DigitChars[i] = c

DigitVal(c) == (CHOOSE i \in 1..10 : DigitChars[i] = c) - 1

\* the character of the last decimal digit of n
DigitOf(n) == DigitChars[(n % 10) + 1]

\* date.isoformat(): "%04d-%02d-%02d"
isoformat(d) ==
    << DigitOf(d[1] \div 1000), DigitOf(d[1] \div 100), DigitOf(d[1] \div 10),
       DigitOf(d[1]), "-", DigitOf(d[2] \div 10), DigitOf(d[2]), "-",
       DigitOf(d[3] \div 10), DigitOf(d[3]) >>

\* date.fromisoformat(s) on the extended format YYYY-MM-DD: Some(date), or None
\* where Python raises ValueError.
fromisoformat(s) ==
    IF /\ Len(s) = 10
       /\ s[5] = "-" /\ s[8] = "-"
       /\ \A i \in {1, 2, 3, 4, 6, 7, 9, 10} : IsDigit(s[i])
    THEN LET y == 1000 * DigitVal(s[1]) + 100 * DigitVal(s[2])
                  + 10 * DigitVal(s[3]) + DigitVal(s[4])
             m == 10 * DigitVal(s[6]) + DigitVal(s[7])
             d == 10 * DigitVal(s[9]) + DigitVal(s[10])
         IN  IF y >= 1 /\ m \in 1..12 /\ d >= 1 /\ d <= DaysInMonth(y, m)
             THEN Some(<<y, m, d>>) ELSE None
    ELSE None

(***************************************************************************)
(* Record.                                                                 *)
(***************************************************************************)
Record(id, amount, category, category_type, date) ==
    [id |-> id, amount |-> amount, category |-> category,
     category_type |-> category_type, date |-> date]

\* a variant of to_dict that leaves category_type out of the payload
to_dict_without_type(r) ==
    [id |-> r.id, amount |-> r.amount, category |-> r.category,
     date |-> isoformat(r.date)]

\* Record.to_dict
to_dict(r) ==
    [id |-> r.id, amount |-> r.amount, category |-> r.category,
     category_type |-> r.category_type, date |-> isoformat(r.date)]

\* a variant of from_dict that draws a uuid4 only when the id is missing:
\* data.get("id", uuid4())
from_dict_keeps_empty_id(data, uid) ==
    LET hasId == "id" \in DOMAIN data
        id == IF hasId THEN data["id"] ELSE uid
        bad(e) == [rec |-> None, err |-> e, drew |-> ~hasId]
    IN  IF "amount" \notin DOMAIN data THEN bad("KeyError")
        ELSE IF "category" \notin DOMAIN data THEN bad("KeyError")
        ELSE IF "date" \notin DOMAIN data THEN bad("KeyError")
        ELSE IF fromisoformat(data["date"]) = None THEN bad("ValueError")
        ELSE [rec |-> Some(Record(id, data["amount"], data["category"],
                                  DictGet(data, "category_type", "expense"),
                                  fromisoformat(data["date"])[1])),
              err |-> "", drew |-> ~hasId]

\* a variant of from_dict that takes a missing amount as 0: data.get("amount", 0)
from_dict_default_amount(data, uid) ==
    LET hasId == "id" \in DOMAIN data /\ data["id"] # ""
        id == IF hasId THEN data["id"] ELSE uid
        bad(e) == [rec |-> None, err |-> e, drew |-> ~hasId]
    IN  IF "category" \notin DOMAIN data THEN bad("KeyError")
        ELSE IF "date" \notin DOMAIN data THEN bad("KeyError")
        ELSE IF fromisoformat(data["date"]) = None THEN bad("ValueError")
        ELSE [rec |-> Some(Record(id, DictGet(data, "amount", 0), data["category"],
                                  DictGet(data, "category_type", "expense"),
                                  fromisoformat(data["date"])[1])),
              err |-> "", drew |-> ~hasId]

\* Record.from_dict(data), with uid the uuid4 drawn if the id is missing or
\* falsy. [rec, err, drew]: the fields are evaluated in the order of the source,
\* so the uuid is drawn before a later field raises.
from_dict(data, uid) ==
    LET hasId == "id" \in DOMAIN data /\ data["id"] # ""
        id == IF hasId THEN data["id"] ELSE uid
        bad(e) == [rec |-> None, err |-> e, drew |-> ~hasId]
    IN  IF "amount" \notin DOMAIN data THEN bad("KeyError")
        ELSE IF "category" \notin DOMAIN data THEN bad("KeyError")
        ELSE IF "date" \notin DOMAIN data THEN bad("KeyError")
        ELSE IF fromisoformat(data["date"]) = None THEN bad("ValueError")
        ELSE [rec |-> Some(Record(id, data["amount"], data["category"],
                                  DictGet(data, "category_type", "expense"),
                                  fromisoformat(data["date"])[1])),
              err |-> "", drew |-> ~hasId]

(***************************************************************************)
(* LedgerStore.                                                            *)
(***************************************************************************)
\* LedgerStore.__init__: the category mapping of a new store
RECURSIVE SetDefaults(_, _)
SetDefaults(cats, i) ==
    IF i > Len(DEFAULT_CATEGORIES) THEN cats
    ELSE SetDefaults(DictSet(cats, DEFAULT_CATEGORIES[i][1], DEFAULT_CATEGORIES[i][2]),
                     i + 1)

DefaultCategories == SetDefaults(EmptyDict, 1)

\* a variant of add_category that keeps the type of a name already registered:
\* self.categories.setdefault(name, ...)
add_category_keeps_registered(cats, name, category_type) ==
    IF name = "" \/ name \in DOMAIN cats THEN cats
    ELSE DictSet(cats, name, IF category_type # "" THEN category_type ELSE "expense")

\* LedgerStore.add_category
add_category(cats, name, category_type) ==
    IF name = "" THEN cats
    ELSE DictSet(cats, name, IF category_type # "" THEN category_type ELSE "expense")

\* a variant of InsertByName that sorts by name in descending order
RECURSIVE InsertByNameDesc(_, _)
InsertByNameDesc(sorted, p) ==
    IF sorted = <<>> THEN <<p>>
    ELSE IF NameRank(p[1]) > NameRank(Head(sorted)[1]) THEN <<p>> \o sorted
    ELSE <<Head(sorted)>> \o InsertByNameDesc(Tail(sorted), p)

\* sorted() of (name, type) pairs: insertion sort by name
RECURSIVE InsertByName(_, _)
InsertByName(sorted, p) ==
    IF sorted = <<>> THEN <<p>>
    ELSE IF NameRank(p[1]) < NameRank(Head(sorted)[1]) THEN <<p>> \o sorted
    ELSE <<Head(sorted)>> \o InsertByName(Tail(sorted), p)

RECURSIVE SortItems(_, _)
SortItems(cats, names) ==
    IF names = {} THEN <<>>
    ELSE LET n == CHOOSE x \in names : TRUE
         IN  InsertByName(SortItems(cats, names \ {n}), <<n, cats[n]>>)

\* LedgerStore.get_categories
get_categories(cats) == SortItems(cats, DOMAIN cats)

\* a variant of ResolveType in which the registered type wins over the one passed
ResolveTypeRegisteredFirst(cats, category, category_type) ==
    DictGet(cats, category, IF category_type # "" THEN category_type ELSE "expense")

\* a variant of ResolveType that never looks the category up: category_type or
\* "expense"
ResolveTypeNoLookup(cats, category, category_type) ==
    IF category_type # "" THEN category_type ELSE "expense"

\* the category_type a record gets: category_type or categories.get(category, "expense")
ResolveType(cats, category, category_type) ==
    IF category_type # "" THEN category_type ELSE DictGet(cats, category, "expense")

\* LedgerStore.find_record
RECURSIVE FindFrom(_, _, _)
FindFrom(recs, record_id, i) ==
    IF i > Len(recs) THEN None
    ELSE IF recs[i].id = record_id THEN Some(recs[i])
    ELSE FindFrom(recs, record_id, i + 1)

find_record(recs, record_id) == FindFrom(recs, record_id, 1)

\* index of the record find_record returns (0: none)
RECURSIVE IndexFrom(_, _, _)
IndexFrom(recs, record_id, i) ==
    IF i > Len(recs) THEN 0
    ELSE IF recs[i].id = record_id THEN i
    ELSE IndexFrom(recs, record_id, i + 1)

\* LedgerStore.add_record: [records, categories, ret]
add_record(recs, cats, uid, amount, category, category_type, date) ==
    LET record == Record(uid, amount, category,
                         ResolveType(cats, category, category_type), date)
    IN  [records |-> Append(recs, record),
         categories |-> add_category(cats, category, record.category_type),
         ret |-> Some(record)]

\* a variant of update_record that registers the category before it looks the
\* record up
update_record_eager(recs, cats, record_id, amount, category, category_type, date) ==
    LET i == IndexFrom(recs, record_id, 1)
        resolved == IF category_type # "" THEN category_type
                    ELSE DictGet(cats, category, "expense")
        registered == add_category(cats, category, resolved)
    IN  IF i = 0 THEN [records |-> recs, categories |-> registered, ret |-> None]
        ELSE LET record == Record(recs[i].id, amount, category, resolved, date)
             IN  [records |-> [recs EXCEPT ![i] = record],
                  categories |-> registered,
                  ret |-> Some(record)]

\* a variant of update_record that takes the record out of the list and appends
\* the updated one
update_record_appends(recs, cats, record_id, amount, category, category_type, date) ==
    LET i == IndexFrom(recs, record_id, 1)
    IN  IF i = 0 THEN [records |-> recs, categories |-> cats, ret |-> None]
        ELSE LET record == Record(recs[i].id, amount, category,
                                  ResolveType(cats, category, category_type), date)
             IN  [records |-> Append(SubSeq(recs, 1, i - 1) \o SubSeq(recs, i + 1, Len(recs)),
                                     record),
                  categories |-> add_category(cats, category, record.category_type),
                  ret |-> Some(record)]

\* LedgerStore.update_record: [records, categories, ret]
update_record(recs, cats, record_id, amount, category, category_type, date) ==
    LET i == IndexFrom(recs, record_id, 1)
    IN  IF i = 0 THEN [records |-> recs, categories |-> cats, ret |-> None]
        ELSE LET record == Record(recs[i].id, amount, category,
                                  ResolveType(cats, category, category_type), date)
             IN  [records |-> [recs EXCEPT ![i] = record],
                  categories |-> add_category(cats, category, record.category_type),
                  ret |-> Some(record)]

\* a variant of delete_record that removes the first match only (list.remove)
RECURSIVE delete_first(_, _)
delete_first(recs, record_id) ==
    IF recs = <<>> THEN <<>>
    ELSE IF Head(recs).id = record_id THEN Tail(recs)
    ELSE <<Head(recs)>> \o delete_first(Tail(recs), record_id)

\* a variant of delete_record that cuts the list at the first match
RECURSIVE delete_from(_, _)
delete_from(recs, record_id) ==
    IF recs = <<>> THEN <<>>
    ELSE IF Head(recs).id = record_id THEN <<>>
    ELSE <<Head(recs)>> \o delete_from(Tail(recs), record_id)

\* LedgerStore.delete_record: the records that remain
RECURSIVE delete_record(_, _)
delete_record(recs, record_id) ==
    IF recs = <<>> THEN <<>>
    ELSE IF Head(recs).id # record_id
         THEN <<Head(recs)>> \o delete_record(Tail(recs), record_id)
         ELSE delete_record(Tail(recs), record_id)

\* "needle in haystack" on the names of the model
IsSubstring(needle, haystack) ==
    \/ needle = haystack
    \/ needle = ""
    \/ needle = "gong" /\ haystack = "gongzi"

\* a variant of Matches that tests the amount bounds for truth, as it tests the
\* dates and the category, so that a bound of 0 is no bound
MatchesTruthyBounds(record, start_date, end_date, category, min_amount, max_amount) ==
    /\ ~(start_date # None /\ DateLT(record.date, start_date[1]))
    /\ ~(end_date # None /\ DateLT(end_date[1], record.date))
    /\ ~(category # None /\ category[1] # "" /\ record.category # category[1])
    /\ ~(min_amount # None /\ min_amount[1] # 0 /\ record.amount < min_amount[1])
    /\ ~(max_amount # None /\ max_amount[1] # 0 /\ record.amount > max_amount[1])

\* a variant of Matches that takes a record whose category is part of the filter
MatchesPartOfCategory(record, start_date, end_date, category, min_amount, max_amount) ==
    /\ ~(start_date # None /\ DateLT(record.date, start_date[1]))
    /\ ~(end_date # None /\ DateLT(end_date[1], record.date))
    /\ ~(category # None /\ category[1] # ""
          /\ ~IsSubstring(record.category, category[1]))
    /\ ~(min_amount # None /\ record.amount < min_amount[1])
    /\ ~(max_amount # None /\ record.amount > max_amount[1])

\* LedgerStore.search_records: the filter of one record. A filter is None or
\* Some(value); start_date, end_date and category are tested for truth (a date
\* is always true, the empty string is false), the amounts for "is not None".
Matches(record, start_date, end_date, category, min_amount, max_amount) ==
    /\ ~(start_date # None /\ DateLT(record.date, start_date[1]))
    /\ ~(end_date # None /\ DateLT(end_date[1], record.date))
    /\ ~(category # None /\ category[1] # "" /\ record.category # category[1])
    /\ ~(min_amount # None /\ record.amount < min_amount[1])
    /\ ~(max_amount # None /\ record.amount > max_amount[1])

\* a variant of InsertByDateDesc without reverse=True
RECURSIVE InsertByDateAsc(_, _)
InsertByDateAsc(sorted, r) ==
    IF sorted = <<>> THEN <<r>>
    ELSE IF DateLT(r.date, Head(sorted).date) THEN <<r>> \o sorted
    ELSE <<Head(sorted)>> \o InsertByDateAsc(Tail(sorted), r)

\* sorted(result, key=lambda r: r.date, reverse=True): stable, so records of one
\* date keep their order
RECURSIVE InsertByDateDesc(_, _)
InsertByDateDesc(sorted, r) ==
    IF sorted = <<>> THEN <<r>>
    ELSE IF DateLT(Head(sorted).date, r.date) THEN <<r>> \o sorted
    ELSE <<Head(sorted)>> \o InsertByDateDesc(Tail(sorted), r)

RECURSIVE SortByDateDesc(_, _)
SortByDateDesc(result, n) ==
    IF n = 0 THEN <<>>
    ELSE InsertByDateDesc(SortByDateDesc(result, n - 1), result[n])

\* LedgerStore.search_records
search_records(recs, start_date, end_date, category, min_amount, max_amount) ==
    LET result == SelectSeq(recs, LAMBDA r : Matches(r, start_date, end_date, category,
                                                      min_amount, max_amount))
    IN  SortByDateDesc(result, Len(result))

\* LedgerStore.export_json: the payload written to the file. json.dumps and
\* json.loads are modelled on the JSON value: [parses, data].
export_json(recs, cats) ==
    LET items == get_categories(cats)
    IN  [parses |-> TRUE,
         data |-> [records |-> [i \in 1..Len(recs) |-> to_dict(recs[i])],
                   categories |-> [i \in 1..Len(items) |->
                                     [name |-> items[i][1],
                                      category_type |-> items[i][2]]]]]

\* import_json, lines 142-143: the file's categories laid over cats, from entry i
\* on. [categories, err]: an entry without a name raises KeyError and the
\* entries before it stay applied.
RECURSIVE OverlayCategories(_, _, _)
OverlayCategories(cats, items, i) ==
    IF i > Len(items) THEN [categories |-> cats, err |-> ""]
    ELSE IF "name" \notin DOMAIN items[i] THEN [categories |-> cats, err |-> "KeyError"]
    ELSE OverlayCategories(DictSet(cats, items[i]["name"],
                                   DictGet(items[i], "category_type", "expense")),
                           items, i + 1)

\* import_json, line 144: [Record.from_dict(item) for item in ...], from entry i
\* on, with next the index of the next uuid4. [records, next, err].
RECURSIVE ParseRecords(_, _, _, _)
ParseRecords(items, i, next, acc) ==
    IF i > Len(items) THEN [records |-> acc, next |-> next, err |-> ""]
    ELSE LET got == from_dict(items[i], Uuids[next])
             nxt == IF got.drew THEN next + 1 ELSE next
         IN  IF got.err # "" THEN [records |-> acc, next |-> nxt, err |-> got.err]
             ELSE ParseRecords(items, i + 1, nxt, acc \o got.rec)

\* a variant of import_json without self.categories.clear(): the file's entries
\* are laid over the categories of the store
import_json_keeps_categories(recs, cats, next, file) ==
    IF ~file.parses
    THEN [records |-> recs, categories |-> cats, next |-> next, err |-> "JSONDecodeError"]
    ELSE LET over == OverlayCategories(SetDefaults(cats, 1),
                                       DictGet(file.data, "categories", <<>>), 1)
             parsed == ParseRecords(DictGet(file.data, "records", <<>>), 1, next, <<>>)
         IN  IF over.err # ""
             THEN [records |-> recs, categories |-> over.categories, next |-> next,
                   err |-> over.err]
             ELSE IF parsed.err # ""
             THEN [records |-> recs, categories |-> over.categories,
                   next |-> parsed.next, err |-> parsed.err]
             ELSE [records |-> parsed.records, categories |-> over.categories,
                   next |-> parsed.next, err |-> ""]

\* a variant of import_json that appends each record to the list of the store as
\* it is parsed, so that a failure leaves the records parsed before it
import_json_appends(recs, cats, next, file) ==
    IF ~file.parses
    THEN [records |-> recs, categories |-> cats, next |-> next, err |-> "JSONDecodeError"]
    ELSE LET over == OverlayCategories(DefaultCategories,
                                       DictGet(file.data, "categories", <<>>), 1)
             parsed == ParseRecords(DictGet(file.data, "records", <<>>), 1, next, <<>>)
         IN  IF over.err # ""
             THEN [records |-> recs, categories |-> over.categories, next |-> next,
                   err |-> over.err]
             ELSE [records |-> parsed.records, categories |-> over.categories,
                   next |-> parsed.next, err |-> parsed.err]

\* a variant of import_json that lays the file's entries over an empty mapping
import_json_no_defaults(recs, cats, next, file) ==
    IF ~file.parses
    THEN [records |-> recs, categories |-> cats, next |-> next, err |-> "JSONDecodeError"]
    ELSE LET over == OverlayCategories(EmptyDict,
                                       DictGet(file.data, "categories", <<>>), 1)
             parsed == ParseRecords(DictGet(file.data, "records", <<>>), 1, next, <<>>)
         IN  IF over.err # ""
             THEN [records |-> recs, categories |-> over.categories, next |-> next,
                   err |-> over.err]
             ELSE IF parsed.err # ""
             THEN [records |-> recs, categories |-> over.categories,
                   next |-> parsed.next, err |-> parsed.err]
             ELSE [records |-> parsed.records, categories |-> over.categories,
                   next |-> parsed.next, err |-> ""]

\* LedgerStore.import_json: [records, categories, next, err]
import_json(recs, cats, next, file) ==
    IF ~file.parses
    THEN [records |-> recs, categories |-> cats, next |-> next, err |-> "JSONDecodeError"]
    ELSE LET over == OverlayCategories(DefaultCategories,
                                       DictGet(file.data, "categories", <<>>), 1)
             parsed == ParseRecords(DictGet(file.data, "records", <<>>), 1, next, <<>>)
         IN  IF over.err # ""
             THEN [records |-> recs, categories |-> over.categories, next |-> next,
                   err |-> over.err]
             ELSE IF parsed.err # ""
             THEN [records |-> recs, categories |-> over.categories,
                   next |-> parsed.next, err |-> parsed.err]
             ELSE [records |-> parsed.records, categories |-> over.categories,
                   next |-> parsed.next, err |-> ""]

\* number of uuid4 draws an import of the file can make: its record entries
\* without an id
Draws(file) ==
    IF ~file.parses THEN 0
    ELSE Len(SelectSeq(DictGet(file.data, "records", <<>>),
                       LAMBDA e : "id" \notin DOMAIN e \/ e["id"] = ""))

(***************************************************************************)
(* The inputs of the model.                                                *)
(***************************************************************************)
D1 == <<2023, 12, 31>>
D2 == <<2024, 1, 1>>

\* what add_record and update_record are called with; the files bring the
\* amount 0, the date D2 and further categories and types
Amounts == {-1, 2}
CategoryNames == {"", "gongzi", "fangzu"}
CategoryTypes == {"", "income"}
Dates == {D1}

\* the ids update_record and delete_record are called with: the uuids, an id
\* found only in files, and an id no record has
IdInputs == {Uuids[i] : i \in 1..MaxUuid} \cup {"x", "zz"}

\* the text "2024-13-40"
BadDate == <<"2", "0", "2", "4", "-", "1", "3", "-", "4", "0">>

\* record entries of hand-written files
FRFull == [id |-> "x", amount |-> 2, category |-> "fangzu",
           category_type |-> "income", date |-> isoformat(D1)]
FRDup == [id |-> "x", amount |-> -1, category |-> "gongzi",
          category_type |-> "expense", date |-> isoformat(D2)]
FRCopy == [id |-> "u1", amount |-> 0, category |-> "lvyou",
           category_type |-> "expense", date |-> isoformat(D2)]
FRNoId == [amount |-> 0, category |-> "lvyou", date |-> isoformat(D2)]
FREmptyId == [id |-> "", amount |-> 2, category |-> "gongzi",
              category_type |-> "gift", date |-> isoformat(D1)]
FRBadDate == [id |-> "y", amount |-> 2, category |-> "fangzu",
              category_type |-> "expense", date |-> BadDate]
FRNoAmount == [id |-> "y", category |-> "fangzu", date |-> isoformat(D1)]

\* category entries of hand-written files
FCFangzu == [name |-> "fangzu", category_type |-> "income"]
FCFangzuExpense == [name |-> "fangzu", category_type |-> "expense"]
FCGongzi == [name |-> "gongzi", category_type |-> "expense"]
FCNoType == [name |-> "lvyou"]
FCNoName == [category_type |-> "income"]
FCEmptyType == [name |-> "fangzu", category_type |-> ""]

\* the hand-written files import_json is called on
HandFiles ==
    { [parses |-> FALSE, data |-> EmptyDict],
      [parses |-> TRUE, data |-> EmptyDict],
      [parses |-> TRUE, data |-> [records |-> <<FRFull, FRNoId>>,
                                  categories |-> <<FCFangzuExpense, FCFangzu,
                                                   FCNoType>>]],
      [parses |-> TRUE, data |-> [records |-> <<FRFull, FRDup>>,
                                  categories |-> <<FCGongzi>>]],
      [parses |-> TRUE, data |-> [records |-> <<FRCopy, FRCopy>>]],
      [parses |-> TRUE, data |-> [categories |-> <<FCEmptyType>>]],
      [parses |-> TRUE, data |-> [records |-> <<FREmptyId, FRNoId>>,
                                  categories |-> <<>>]],
      [parses |-> TRUE, data |-> [records |-> <<FRFull, FRBadDate>>,
                                  categories |-> <<FCFangzu>>]],
      [parses |-> TRUE, data |-> [records |-> <<FRNoId, FRNoAmount>>,
                                  categories |-> <<FCGongzi>>]],
      [parses |-> TRUE, data |-> [records |-> <<FRFull>>,
                                  categories |-> <<FCFangzu, FCNoName, FCGongzi>>]] }

\* a file written by hand holds no uuid that has not been drawn yet
HoldsOnlyDrawn(file, next) ==
    LET items == IF file.parses THEN DictGet(file.data, "records", <<>>) ELSE <<>>
    IN  \A i \in 1..Len(items) :
          "id" \in DOMAIN items[i] =>
            \A k \in 1..Len(Uuids) : items[i]["id"] = Uuids[k] => k < next

(***************************************************************************)
(* The state machine: one store, the operations called on it one at a time *)
(* (the application is single-threaded), and the file written by export.   *)
(***************************************************************************)
Init ==
    /\ records = <<>>
    /\ categories = DefaultCategories
    /\ nextId = 1
    /\ disk = None
    /\ saved = None
    /\ op = "init"
    /\ arg = None
    /\ before = 0
    /\ ret = None
    /\ err = ""
    /\ editing_record_id = None

AddRecord(amount, category, category_type, date) ==
    /\ Len(records) < MaxRecords
    /\ nextId <= MaxUuid
    /\ LET r == add_record(records, categories, Uuids[nextId], amount, category,
                           category_type, date)
       IN  /\ records' = r.records
           /\ categories' = r.categories
           /\ ret' = r.ret
    /\ nextId' = nextId + 1
    /\ op' = "add"
    /\ arg' = None
    /\ before' = Len(records)
    /\ err' = ""
    /\ UNCHANGED <<editing_record_id, disk, saved>>

UpdateRecord(record_id, amount, category, category_type, date) ==
    /\ LET r == update_record(records, categories, record_id, amount, category,
                              category_type, date)
       IN  /\ records' = r.records
           /\ categories' = r.categories
           /\ ret' = r.ret
    /\ op' = "update"
    /\ arg' = Some(record_id)
    /\ before' = Len(records)
    /\ err' = ""
    /\ UNCHANGED <<editing_record_id, nextId, disk, saved>>

DeleteRecord(record_id) ==
    /\ records' = delete_record(records, record_id)
    /\ op' = "delete"
    /\ arg' = Some(record_id)
    /\ before' = Len(records)
    /\ ret' = None
    /\ err' = ""
    /\ UNCHANGED <<editing_record_id, categories, nextId, disk, saved>>

Import(path, file) ==
    /\ nextId + Draws(file) <= MaxUuid + 1
    /\ LET r == import_json(records, categories, nextId, file)
       IN  /\ records' = r.records
           /\ categories' = r.categories
           /\ nextId' = r.next
           /\ err' = r.err
    /\ op' = "import"
    /\ arg' = Some(path)
    /\ before' = Len(records)
    /\ ret' = None
    /\ UNCHANGED <<editing_record_id, disk, saved>>

\* import_json on a file written by hand
ImportHandFile(file) ==
    /\ HoldsOnlyDrawn(file, nextId)
    /\ Import("hand", file)

\* import_json on the file export_json wrote
ImportExported ==
    /\ disk # None
    /\ Import("exported", disk[1])

ExportJson ==
    /\ disk' = Some(export_json(records, categories))
    /\ saved' = Some([records |-> records, categories |-> categories])
    /\ op' = "export"
    /\ arg' = Some("exported")
    /\ before' = Len(records)
    /\ ret' = None
    /\ err' = ""
    /\ UNCHANGED <<editing_record_id, records, categories, nextId>>

\* LedgerStore(): the application is started again with a new store; the file
\* and the uuids drawn so far remain
NewStore ==
    /\ records' = <<>>
    /\ categories' = DefaultCategories
    /\ op' = "new"
    /\ arg' = None
    /\ before' = Len(records)
    /\ ret' = None
    /\ err' = ""
    /\ UNCHANGED <<editing_record_id, nextId, disk, saved>>

\* a variant of Search that sorts the list of the store in place
SearchSortsInPlace(start_date, end_date, category, min_amount, max_amount) ==
    /\ op = "init"
    /\ op' = "search"
    /\ arg' = Some(<<start_date, end_date, category, min_amount, max_amount>>)
    /\ before' = Len(records)
    /\ records' = SortByDateDesc(records, Len(records))
    /\ ret' = search_records(records, start_date, end_date, category, min_amount,
                             max_amount)
    /\ err' = ""
    /\ UNCHANGED <<editing_record_id, categories, nextId, disk, saved>>

\* search_records, called once on the store as it stands
Search(start_date, end_date, category, min_amount, max_amount) ==
    /\ op = "init"
    /\ op' = "search"
    /\ arg' = Some(<<start_date, end_date, category, min_amount, max_amount>>)
    /\ before' = Len(records)
    /\ ret' = search_records(records, start_date, end_date, category, min_amount,
                             max_amount)
    /\ err' = ""
    /\ UNCHANGED <<editing_record_id, records, categories, nextId, disk, saved>>

\* the store under add_record, update_record, delete_record and import_json of
\* hand-written files
Next ==
    \/ \E a \in Amounts, c \in CategoryNames, t \in CategoryTypes, d \in Dates :
         AddRecord(a, c, t, d)
    \/ \E id \in IdInputs, a \in Amounts, c \in CategoryNames, t \in CategoryTypes,
          d \in Dates : UpdateRecord(id, a, c, t, d)
    \/ \E id \in IdInputs : DeleteRecord(id)
    \/ \E f \in HandFiles : ImportHandFile(f)

Spec == Init /\ [][Next]_vars

(***************************************************************************)
(* Export and import. The store is filled by imports of hand-written       *)
(* files, by add_record and by delete_record; export_json writes the file, *)
(* import_json reads it back into the store as it then stands, which may   *)
(* have changed since or be a new store.                                   *)
(***************************************************************************)
FileCategoryNames == {"fangzu"}

NextFile ==
    \/ \E f \in HandFiles : ImportHandFile(f)
    \/ \E a \in Amounts, c \in FileCategoryNames, t \in CategoryTypes :
         AddRecord(a, c, t, D2)
    \/ \E id \in IdInputs : DeleteRecord(id)
    \/ ExportJson
    \/ ImportExported
    \/ NewStore

SpecFile == Init /\ [][NextFile]_vars

(***************************************************************************)
(* Search. The store holds any list of up to MaxSearchRecords records (an  *)
(* import of a file with these records gives it), and search_records is    *)
(* called once with any combination of filters.                            *)
(***************************************************************************)
MaxSearchRecords == 3

D3 == <<2024, 1, 15>>

SearchIds == <<"r1", "r2", "r3", "r4", "r5">>
SearchAmounts == {0, 2}
SearchCategories == {"gong", "gongzi"}
SearchDates == {D1, D2, D3}

SearchStores ==
    LET Fields == SearchAmounts \X SearchCategories \X SearchDates
        Lists == UNION {[1..n -> Fields] : n \in 0..MaxSearchRecords}
    IN  {[i \in DOMAIN f |-> Record(SearchIds[i], f[i][1], f[i][2], "expense", f[i][3])]
           : f \in Lists}

DateFilters == {None, Some(D2)}
CategoryFilters == {None, Some(""), Some("gongzi")}
AmountFilters == {None, Some(0), Some(2)}

InitSearch ==
    /\ records \in SearchStores
    /\ categories = DefaultCategories
    /\ nextId = 1
    /\ disk = None
    /\ saved = None
    /\ op = "init"
    /\ arg = None
    /\ before = 0
    /\ ret = None
    /\ err = ""
    /\ editing_record_id = None

NextSearch ==
    \E s \in DateFilters, e \in DateFilters, c \in CategoryFilters,
       lo \in AmountFilters, hi \in AmountFilters : Search(s, e, c, lo, hi)

SpecSearch == InitSearch /\ [][NextSearch]_vars

(***************************************************************************)
(* Aggregation: summary and monthly_trend.                                 *)
(***************************************************************************)
\* sum(r.amount for r in recs if r.category_type == category_type), from
\* entry i on
RECURSIVE SumOfType(_, _, _)
SumOfType(recs, category_type, i) ==
    IF i > Len(recs) THEN 0
    ELSE (IF recs[i].category_type = category_type THEN recs[i].amount ELSE 0)
         + SumOfType(recs, category_type, i + 1)

\* a variant of summary whose balance is expense - income
summary_balance_reversed(recs, start, end) ==
    LET found == search_records(recs, start, end, None, None, None)
        income == SumOfType(found, "income", 1)
        expense == SumOfType(found, "expense", 1)
    IN  [income |-> income, expense |-> expense, balance |-> expense - income]

\* a variant of summary that passes only the start bound to search_records
summary_ignores_end(recs, start, end) ==
    LET found == search_records(recs, start, None, None, None, None)
        income == SumOfType(found, "income", 1)
        expense == SumOfType(found, "expense", 1)
    IN  [income |-> income, expense |-> expense, balance |-> income - expense]

\* LedgerStore.summary
summary(recs, start, end) ==
    LET found == search_records(recs, start, end, None, None, None)
        income == SumOfType(found, "income", 1)
        expense == SumOfType(found, "expense", 1)
    IN  [income |-> income, expense |-> expense, balance |-> income - expense]

\* f"{year:04d}-{month:02d}" and date.strftime("%Y-%m"), for a year of 0..9999
MonthKey(year, month) ==
    << DigitOf(year \div 1000), DigitOf(year \div 100), DigitOf(year \div 10),
       DigitOf(year), "-", DigitOf(month \div 10), DigitOf(month) >>

\* Python's order of the characters of a month key
CharRank(c) == IF c = "-" THEN 0 ELSE DigitVal(c) + 1

\* str.__lt__ on two texts: the first character that differs decides, a proper
\* prefix comes first
RECURSIVE StrLT(_, _)
StrLT(a, b) ==
    IF b = <<>> THEN FALSE
    ELSE IF a = <<>> THEN TRUE
    ELSE IF Head(a) # Head(b) THEN CharRank(Head(a)) < CharRank(Head(b))
    ELSE StrLT(Tail(a), Tail(b))

\* a variant of WrapMonth that steps back one year at most
WrapMonthOnce(year, month) ==
    IF month <= 0 THEN <<year - 1, month + 12>> ELSE <<year, month>>

\* monthly_trend, lines 164-166: while month <= 0: month += 12; year -= 1
RECURSIVE WrapMonth(_, _)
WrapMonth(year, month) ==
    IF month <= 0 THEN WrapMonth(year - 1, month + 12) ELSE <<year, month>>

\* monthly_trend, lines 161-168: the buckets of i, ..., months - 1, each 0
RECURSIVE MakeBuckets(_, _, _, _)
MakeBuckets(buckets, base, i, months) ==
    IF i >= months THEN buckets
    ELSE LET ym == WrapMonth(base[1], base[2] - i)
         IN  MakeBuckets(DictSet(buckets, MonthKey(ym[1], ym[2]), 0), base, i + 1,
                         months)

\* monthly_trend, lines 169-173: the records from entry i on added to their
\* buckets, an income as +amount and any other record as -amount
RECURSIVE FillBuckets(_, _, _)
FillBuckets(buckets, recs, i) ==
    IF i > Len(recs) THEN buckets
    ELSE LET key == MonthKey(recs[i].date[1], recs[i].date[2])
             sign == IF recs[i].category_type = "income" THEN 1 ELSE -1
         IN  FillBuckets(IF key \in DOMAIN buckets
                         THEN DictSet(buckets, key, buckets[key] + recs[i].amount * sign)
                         ELSE buckets,
                         recs, i + 1)

\* sorted(buckets.items()): insertion sort by key
RECURSIVE InsertByKey(_, _)
InsertByKey(sorted, p) ==
    IF sorted = <<>> THEN <<p>>
    ELSE IF StrLT(p[1], Head(sorted)[1]) THEN <<p>> \o sorted
    ELSE <<Head(sorted)>> \o InsertByKey(Tail(sorted), p)

RECURSIVE SortBuckets(_, _)
SortBuckets(buckets, keys) ==
    IF keys = {} THEN <<>>
    ELSE LET k == CHOOSE x \in keys : TRUE
         IN  InsertByKey(SortBuckets(buckets, keys \ {k}), <<k, buckets[k]>>)

\* LedgerStore.monthly_trend, with today the value of dt.date.today()
monthly_trend(recs, today, months) ==
    LET base == <<today[1], today[2], 1>>
        buckets == FillBuckets(MakeBuckets(EmptyDict, base, 0, months), recs, 1)
    IN  SortBuckets(buckets, DOMAIN buckets)

\* summary, called once on the store as it stands
Summary(start, end) ==
    /\ op = "init"
    /\ op' = "summary"
    /\ arg' = Some(<<start, end>>)
    /\ before' = Len(records)
    /\ ret' = Some(summary(records, start, end))
    /\ err' = ""
    /\ UNCHANGED <<editing_record_id, records, categories, nextId, disk, saved>>

\* monthly_trend, called once on the store as it stands, on the day today
MonthlyTrend(today, months) ==
    /\ op = "init"
    /\ op' = "monthly_trend"
    /\ arg' = Some(<<today, months>>)
    /\ before' = Len(records)
    /\ ret' = monthly_trend(records, today, months)
    /\ err' = ""
    /\ UNCHANGED <<editing_record_id, records, categories, nextId, disk, saved>>

(***************************************************************************)
(* The aggregations. The store holds any list of up to MaxAggRecords       *)
(* records (an import of a file with these records gives it), and one      *)
(* aggregation is called on it, on any of the days Todays.                 *)
(***************************************************************************)
MaxAggRecords == 2
MaxMonths == 14

D0 == <<2023, 11, 30>>

AggAmounts == {1, 2}
AggTypes == {"income", "expense", "gift"}
AggDates == {D0, D1, D2}

AggStores ==
    LET Fields == AggAmounts \X AggTypes \X AggDates
        Lists == UNION {[1..n -> Fields] : n \in 0..MaxAggRecords}
    IN  {[i \in DOMAIN f |-> Record(SearchIds[i], f[i][1], "gongzi", f[i][2], f[i][3])]
           : f \in Lists}

SummaryBounds == {None, Some(D1), Some(D2)}

\* the values of dt.date.today(): a January, the last day of a year, a May
Todays == {<<2024, 1, 31>>, <<2023, 12, 31>>, <<2024, 5, 15>>}

InitAgg ==
    /\ records \in AggStores
    /\ categories = DefaultCategories
    /\ nextId = 1
    /\ disk = None
    /\ saved = None
    /\ op = "init"
    /\ arg = None
    /\ before = 0
    /\ ret = None
    /\ err = ""
    /\ editing_record_id = None

NextAgg ==
    \/ \E s \in SummaryBounds, e \in SummaryBounds : Summary(s, e)
    \/ \E t \in Todays, n \in 1..MaxMonths : MonthlyTrend(t, n)

SpecAgg == InitAgg /\ [][NextAgg]_vars

(***************************************************************************)
(* current_month_breakdown, and the read operations side by side.          *)
(***************************************************************************)
\* buckets[category] = buckets.get(category, 0.0) + amount, on a dict kept as
\* the list of its (key, value) pairs in the order of insertion
RECURSIVE AddToBucket(_, _, _)
AddToBucket(buckets, category, amount) ==
    IF buckets = <<>> THEN << <<category, amount>> >>
    ELSE IF Head(buckets)[1] = category
    THEN << <<category, Head(buckets)[2] + amount>> >> \o Tail(buckets)
    ELSE <<Head(buckets)>> \o AddToBucket(Tail(buckets), category, amount)

\* current_month_breakdown, lines 180-184: the records from entry i on
RECURSIVE BreakdownBuckets(_, _, _, _, _)
BreakdownBuckets(buckets, recs, i, today, category_type) ==
    IF i > Len(recs) THEN buckets
    ELSE IF /\ recs[i].date[1] = today[1]
            /\ recs[i].date[2] = today[2]
            /\ recs[i].category_type = category_type
    THEN BreakdownBuckets(AddToBucket(buckets, recs[i].category, recs[i].amount),
                          recs, i + 1, today, category_type)
    ELSE BreakdownBuckets(buckets, recs, i + 1, today, category_type)

\* a variant of InsertByTotalDesc that sorts by total in ascending order
RECURSIVE InsertByTotalAsc(_, _)
InsertByTotalAsc(sorted, p) ==
    IF sorted = <<>> THEN <<p>>
    ELSE IF p[2] < Head(sorted)[2] THEN <<p>> \o sorted
    ELSE <<Head(sorted)>> \o InsertByTotalAsc(Tail(sorted), p)

\* sorted(buckets.items(), key=lambda item: item[1], reverse=True): a stable
\* sort, pairs of equal total stay in the order of the dict
RECURSIVE InsertByTotalDesc(_, _)
InsertByTotalDesc(sorted, p) ==
    IF sorted = <<>> THEN <<p>>
    ELSE IF p[2] > Head(sorted)[2] THEN <<p>> \o sorted
    ELSE <<Head(sorted)>> \o InsertByTotalDesc(Tail(sorted), p)

RECURSIVE SortByTotalDesc(_, _)
SortByTotalDesc(items, n) ==
    IF n = 0 THEN <<>>
    ELSE InsertByTotalDesc(SortByTotalDesc(items, n - 1), items[n])

\* LedgerStore.current_month_breakdown, with today the value of dt.date.today()
current_month_breakdown(recs, today, category_type) ==
    LET buckets == BreakdownBuckets(<<>>, recs, 1, today, category_type)
    IN  SortByTotalDesc(buckets, Len(buckets))

\* current_month_breakdown, called once on the store as it stands
CurrentMonthBreakdown(today, category_type) ==
    /\ op = "init"
    /\ op' = "breakdown"
    /\ arg' = Some(<<today, category_type>>)
    /\ before' = Len(records)
    /\ ret' = current_month_breakdown(records, today, category_type)
    /\ err' = ""
    /\ UNCHANGED <<editing_record_id, records, categories, nextId, disk, saved>>

\* find_record, called once on the store as it stands
FindRecord(record_id) ==
    /\ op = "init"
    /\ op' = "find"
    /\ arg' = Some(record_id)
    /\ before' = Len(records)
    /\ ret' = find_record(records, record_id)
    /\ err' = ""
    /\ UNCHANGED <<editing_record_id, records, categories, nextId, disk, saved>>

\* get_categories, called once on the store as it stands
GetCategories ==
    /\ op = "init"
    /\ op' = "get_categories"
    /\ arg' = None
    /\ before' = Len(records)
    /\ ret' = get_categories(categories)
    /\ err' = ""
    /\ UNCHANGED <<editing_record_id, records, categories, nextId, disk, saved>>

(***************************************************************************)
(* The read operations. The store holds any list of up to MaxReadRecords   *)
(* records of two categories, and the read operations are called on it;    *)
(* export_json may follow any of them.                                     *)
(***************************************************************************)
MaxReadRecords == 2

ReadAmounts == {1, 2}
ReadCategories == {"gongzi", "fangzu"}
ReadTypes == {"income", "expense"}
ReadDates == {D1, D2}

ReadStores ==
    LET Fields == ReadAmounts \X ReadCategories \X ReadTypes \X ReadDates
        Lists == UNION {[1..n -> Fields] : n \in 0..MaxReadRecords}
    IN  {[i \in DOMAIN f |-> Record(SearchIds[i], f[i][1], f[i][2], f[i][3], f[i][4])]
           : f \in Lists}

\* the values of dt.date.today(): a day of the month of D2, and the day D1
ReadTodays == {<<2024, 1, 31>>, D1}

InitRead ==
    /\ records \in ReadStores
    /\ categories = DefaultCategories
    /\ nextId = 1
    /\ disk = None
    /\ saved = None
    /\ op = "init"
    /\ arg = None
    /\ before = 0
    /\ ret = None
    /\ err = ""
    /\ editing_record_id = None

NextRead ==
    \/ \E id \in {SearchIds[1], "zz"} : FindRecord(id)
    \/ \E s \in DateFilters, c \in {None, Some("gongzi")} : Search(s, None, c, None, None)
    \/ \E s \in DateFilters, e \in DateFilters : Summary(s, e)
    \/ \E t \in ReadTodays, n \in 1..2 : MonthlyTrend(t, n)
    \/ \E t \in ReadTodays, c \in ReadTypes : CurrentMonthBreakdown(t, c)
    \/ GetCategories
    \/ ExportJson

SpecRead == InitRead /\ [][NextRead]_vars

(***************************************************************************)
(* LedgerApp: the form, the table of records, the menu of a row and the    *)
(* import button. The table is refreshed after every call that changes the *)
(* records, so its rows are the records of the store; the data file is     *)
(* written by persist_data after every change.                             *)
(***************************************************************************)
\* what the form is submitted with: the type comes from two radio buttons
AppAmounts == {-1, 2}
AppCategories == {"", "fangzu"}
AppTypes == {"income", "expense"}

\* LedgerApp.__init__ with no data file: a new store, which _load_default_data
\* persists
InitApp ==
    /\ records = <<>>
    /\ categories = DefaultCategories
    /\ nextId = 1
    /\ disk = Some(export_json(<<>>, DefaultCategories))
    /\ saved = Some([records |-> <<>>, categories |-> DefaultCategories])
    /\ op = "init"
    /\ arg = None
    /\ before = 0
    /\ ret = None
    /\ err = ""
    /\ editing_record_id = None

\* LedgerApp.on_tree_select: a row of the table is selected
OnTreeSelect(record_id) ==
    /\ \E i \in 1..Len(records) : records[i].id = record_id
    /\ editing_record_id' = Some(find_record(records, record_id)[1].id)
    /\ op' = "select"
    /\ arg' = Some(record_id)
    /\ before' = Len(records)
    /\ ret' = None
    /\ err' = ""
    /\ UNCHANGED <<records, categories, nextId, disk, saved>>

\* LedgerApp.save_record: the form is submitted. Inputs that fail the validation
\* leave everything as it is; otherwise the record being edited is updated, or a
\* record is added, the data file is written and the form is reset.
SaveRecord(amount, category, category_type, date) ==
    IF amount < 0 \/ category = ""
    THEN /\ op' = "save_rejected"
         /\ arg' = None
         /\ before' = Len(records)
         /\ ret' = None
         /\ err' = ""
         /\ UNCHANGED <<records, categories, nextId, disk, saved, editing_record_id>>
    ELSE /\ editing_record_id = None => (Len(records) < MaxRecords /\ nextId <= MaxUuid)
         /\ LET r == IF editing_record_id # None
                     THEN update_record(records, categories, editing_record_id[1],
                                        amount, category, category_type, date)
                     ELSE add_record(records, categories, Uuids[nextId], amount,
                                     category, category_type, date)
            IN  /\ records' = r.records
                /\ categories' = r.categories
                /\ ret' = r.ret
                /\ disk' = Some(export_json(r.records, r.categories))
                /\ saved' = Some([records |-> r.records, categories |-> r.categories])
         /\ nextId' = IF editing_record_id # None THEN nextId ELSE nextId + 1
         /\ editing_record_id' = None
         /\ op' = "save"
         /\ arg' = editing_record_id
         /\ before' = Len(records)
         /\ err' = ""

\* LedgerApp.delete_record_from_menu, on the row whose menu was opened: the click
\* on the row selects it, the menu entry deletes the record and resets the form
DeleteRecordFromMenu(record_id) ==
    /\ \E i \in 1..Len(records) : records[i].id = record_id
    /\ records' = delete_record(records, record_id)
    /\ disk' = Some(export_json(records', categories))
    /\ saved' = Some([records |-> records', categories |-> categories])
    /\ editing_record_id' = None
    /\ op' = "menu_delete"
    /\ arg' = Some(record_id)
    /\ before' = Len(records)
    /\ ret' = None
    /\ err' = ""
    /\ UNCHANGED <<categories, nextId>>

\* LedgerApp.import_json on a file the user picked: the store imports it and the
\* file is copied over the data file; an exception is shown and nothing more is
\* done. editing_record_id is not assigned on either path.
AppImportJson(file) ==
    /\ HoldsOnlyDrawn(file, nextId)
    /\ nextId + Draws(file) <= MaxUuid + 1
    /\ LET r == import_json(records, categories, nextId, file)
       IN  /\ records' = r.records
           /\ categories' = r.categories
           /\ nextId' = r.next
           /\ err' = r.err
           /\ disk' = IF r.err = "" THEN Some(file) ELSE disk
    /\ op' = "app_import"
    /\ arg' = Some("hand")
    /\ before' = Len(records)
    /\ ret' = None
    /\ UNCHANGED <<saved, editing_record_id>>

NextApp ==
    \/ \E id \in IdInputs : OnTreeSelect(id)
    \/ \E a \in AppAmounts, c \in AppCategories, t \in AppTypes, d \in Dates :
         SaveRecord(a, c, t, d)
    \/ \E id \in IdInputs : DeleteRecordFromMenu(id)
    \/ \E f \in HandFiles : AppImportJson(f)

SpecApp == InitApp /\ [][NextApp]_vars

(***************************************************************************)
(* The properties.                                                         *)
(***************************************************************************)
RecordSet(recs) == {recs[i] : i \in 1..Len(recs)}

Count(recs, r) == Cardinality({i \in 1..Len(recs) : recs[i] = r})

IsPermutation(a, b) ==
    /\ Len(a) = Len(b)
    /\ \A r \in RecordSet(a) \cup RecordSet(b) : Count(a, r) = Count(b, r)

DistinctIds(recs) ==
    \A i, j \in 1..Len(recs) : i # j => recs[i].id # recs[j].id

ValidAmounts == {a \in Amounts : a >= 0}
ValidCategories == CategoryNames \ {""}
ValidTypes == {"income", "expense"}

\* C1: add_record with valid inputs (amount >= 0, a non-empty category, a type
\* income or expense, a date) returns a record whose id is non-empty and differs
\* from the id of every record the store held, and find_record of that id then
\* returns a record with exactly the amount, category, type and date passed.
C1_AddThenFind ==
    [][\A a \in ValidAmounts, c \in ValidCategories, t \in ValidTypes, d \in Dates :
         AddRecord(a, c, t, d) =>
           LET r == ret'[1]
           IN  /\ r.id # ""
               /\ \A i \in 1..Len(records) : records[i].id # r.id
               /\ find_record(records', r.id) = Some(Record(r.id, a, c, t, d))]_vars

\* add_record has been called on a store that held a record, with an explicit
\* type that differs from the one registered for the category
C1_Witness ==
    /\ op = "add"
    /\ before = 1
    /\ Len(records) = 2
    /\ ret = Some(records[2])
    /\ records[2].amount >= 0
    /\ records[2].category = "gongzi"
    /\ records[2].category_type = "income"
    /\ records[1].category = "gongzi"
    /\ records[1].category_type = "expense"

\* C2: after delete_record(id), find_record(id) returns None, and an id that
\* find_record does not find is found again only after an add_record or an
\* import_json.
C2_DeleteThenAbsent ==
    [][\A id \in IdInputs :
         /\ DeleteRecord(id) => find_record(records', id) = None
         /\ (find_record(records, id) = None /\ find_record(records', id) # None)
              => op' \in {"add", "import"}]_vars

\* delete_record has been called with an id add_record returned, on a store
\* that held two records of that id
C2_Witness ==
    /\ op = "delete"
    /\ arg = Some("u1")
    /\ before = 2
    /\ records = <<>>

\* C3: import_json of the file export_json wrote, into whatever store, gives
\* the set of records and the category mapping of the store that was exported.
C3_RoundTrip ==
    [][ImportExported =>
         /\ err' = ""
         /\ RecordSet(records') = RecordSet(saved[1].records)
         /\ categories' = saved[1].categories]_vars

\* a store of two records and a category that is not built in has been
\* exported, and the file imported into a store that held other records
C3_Witness ==
    /\ op = "import"
    /\ arg = Some("exported")
    /\ err = ""
    /\ before = 1
    /\ Len(records) = 2
    /\ records = saved[1].records
    /\ records[1].category_type = "income"
    /\ "fangzu" \in DOMAIN categories
    /\ categories["gongzi"] = "expense"

\* a record entry from_dict raises on: a required field is missing, or the
\* date is no calendar date
BadEntry(e) ==
    \/ "amount" \notin DOMAIN e
    \/ "category" \notin DOMAIN e
    \/ "date" \notin DOMAIN e
    \/ fromisoformat(e["date"]) = None

HasBadRecord(file) ==
    /\ file.parses
    /\ \E i \in 1..Len(DictGet(file.data, "records", <<>>)) :
         BadEntry(DictGet(file.data, "records", <<>>)[i])

\* C4: import_json of a file with a record that has an invalid date or lacks a
\* required field fails and leaves the records and the category mapping as they
\* were before the call.
C4_ImportAllOrNothing ==
    [][\A f \in HandFiles :
         (ImportHandFile(f) /\ HasBadRecord(f)) =>
            /\ err' # ""
            /\ records' = records
            /\ categories' = categories]_vars

\* C5: every stored record has amount >= 0.
C5_AmountsNonNegative ==
    \A i \in 1..Len(records) : records[i].amount >= 0

\* C6: add_record and update_record called with amount < 0 fail with
\* InvalidAmount and leave the records and the category mapping unchanged.
C6_NegativeAmountRejected ==
    [][\A id \in IdInputs, a \in Amounts, c \in CategoryNames, t \in CategoryTypes,
          d \in Dates :
         (a < 0 /\ (AddRecord(a, c, t, d) \/ UpdateRecord(id, a, c, t, d))) =>
            /\ err' = "InvalidAmount"
            /\ records' = records
            /\ categories' = categories]_vars

\* C7: the ids of the stored records are pairwise distinct, and update_record
\* leaves the id of every record as it was.
C7_UniqueImmutableIds ==
    [][/\ DistinctIds(records')
       /\ op' = "update" =>
            /\ Len(records') = Len(records)
            /\ \A i \in 1..Len(records) : records'[i].id = records[i].id]_vars

NoFilters == <<None, None, None, None, None>>

\* the filters of a search_records call, stated on the record: inclusive bounds
\* on date and amount, an absent bound being no constraint
InRange(r, f) ==
    /\ f[1] = None \/ DateLE(f[1][1], r.date)
    /\ f[2] = None \/ DateLE(r.date, f[2][1])
    /\ f[4] = None \/ r.amount >= f[4][1]
    /\ f[5] = None \/ r.amount <= f[5][1]

\* C8: search_records() with no filters returns every stored record exactly
\* once, each record's date being >= the date of the record that follows it.
C8_SearchAllSortedDesc ==
    (op = "search" /\ arg = Some(NoFilters)) =>
        /\ IsPermutation(ret, records)
        /\ \A i \in 1..(Len(ret) - 1) : DateLE(ret[i + 1].date, ret[i].date)

\* search_records() has been called on records dated 2023-12-31, 2024-01-15,
\* 2024-01-01 in that order
C8_Witness ==
    /\ op = "search"
    /\ arg = Some(NoFilters)
    /\ Len(records) = 3
    /\ records[1].date = D1 /\ records[2].date = D3 /\ records[3].date = D2
    /\ ret = <<records[2], records[3], records[1]>>

\* C9: without a category filter, search_records returns exactly the stored
\* records within the inclusive date and amount bounds that are present; a
\* bound of 0 is applied.
C9_InclusiveBounds ==
    (op = "search" /\ arg[1][3] = None) =>
        /\ RecordSet(ret) = {r \in RecordSet(records) : InRange(r, arg[1])}
        /\ Len(ret) = Cardinality(RecordSet(ret))

\* search_records has been called with all four bounds, the amount bounds 0,
\* on three records of which one lies on every bound and is the one returned
C9_Witness ==
    /\ op = "search"
    /\ arg = Some(<<Some(D2), Some(D2), None, Some(0), Some(0)>>)
    /\ Len(records) = 3
    /\ records[1].date = D1 /\ records[1].amount = 0
    /\ records[2].date = D2 /\ records[2].amount = 0
    /\ records[3].date = D2 /\ records[3].amount = 2
    /\ ret = <<records[2]>>

\* C10 as claimed: search_records(category=c) returns exactly the stored
\* records whose category equals c, for every string c, the empty string
\* included.
C10_CategoryExactAnyString ==
    (op = "search" /\ arg[1][3] # None) =>
        LET f == arg[1]
        IN  (f[1] = None /\ f[2] = None /\ f[4] = None /\ f[5] = None) =>
              /\ RecordSet(ret) = {r \in RecordSet(records) : r.category = f[3][1]}
              /\ Len(ret) = Cardinality(RecordSet(ret))

\* C10: search_records with a non-empty category filter c returns exactly the
\* stored records whose category equals c, among those within the other filters;
\* with the empty string as category filter it returns every stored record within
\* the other filters.
C10_CategoryExactNonEmpty ==
    (op = "search" /\ arg[1][3] # None) =>
        LET f == arg[1]
        IN  /\ RecordSet(ret) =
                 {r \in RecordSet(records) :
                    InRange(r, f) /\ (f[3][1] = "" \/ r.category = f[3][1])}
            /\ Len(ret) = Cardinality(RecordSet(ret))

\* search_records(category="gongzi") has been called on a store with records of
\* the categories "gongzi" and "gong", and returned the former only
C10_Witness ==
    /\ op = "search"
    /\ arg = Some(<<None, None, Some("gongzi"), None, None>>)
    /\ Len(records) = 3
    /\ records[1].category = "gong"
    /\ records[2].category = "gongzi"
    /\ records[3].category = "gongzi"
    /\ Len(ret) = 2

\* C11: the result of summary(start, end) satisfies balance = income - expense,
\* and on a store with no records it is income 0, expense 0, balance 0.
C11_SummaryBalance ==
    (op = "summary") =>
        LET r == ret[1]
        IN  /\ r.balance = r.income - r.expense
            /\ (records = <<>> => r.income = 0 /\ r.expense = 0 /\ r.balance = 0)

\* summary has been called with no bounds on a store with an income of 2 and an
\* expense of 1, and returned the balance 1
C11_Witness ==
    /\ op = "summary"
    /\ arg = Some(<<None, None>>)
    /\ Len(records) = 2
    /\ ret[1].income = 2
    /\ ret[1].expense = 1
    /\ ret[1].balance = 1

\* the month that lies k months after month 1 of year 0, as a key
KeyOfIndex(k) == MonthKey(k \div 12, (k % 12) + 1)

\* some record of the store is dated in the month with this key
HasRecordIn(key) ==
    \E i \in 1..Len(records) : MonthKey(records[i].date[1], records[i].date[2]) = key

\* C12: monthly_trend(months), months >= 1, returns exactly months entries; the
\* key of entry i is the calendar month months - i months before the current
\* month, as YYYY-MM, so the keys are consecutive months, oldest first, ending
\* at the current month, across year boundaries too; the value of a month with
\* no records is 0.
C12_TrendKeys ==
    (op = "monthly_trend") =>
        LET today == arg[1][1]
            months == arg[1][2]
            last == today[1] * 12 + (today[2] - 1)
        IN  /\ Len(ret) = months
            /\ \A i \in 1..Len(ret) :
                 /\ ret[i][1] = KeyOfIndex(last - (months - i))
                 /\ ~HasRecordIn(ret[i][1]) => ret[i][2] = 0

\* monthly_trend(3) has been called on a day of January 2024, on a store with a
\* record of December 2023 and none of January 2024
C12_Witness ==
    /\ op = "monthly_trend"
    /\ arg = Some(<< <<2024, 1, 31>>, 3 >>)
    /\ ret[1][1] = MonthKey(2023, 11)
    /\ ret[2][1] = MonthKey(2023, 12)
    /\ ret[3][1] = MonthKey(2024, 1)
    /\ ret[2][2] # 0
    /\ ret[3][2] = 0

\* C13: update_record with an id that no stored record has returns None and
\* changes nothing: the records, their order and the categories are as before,
\* whatever category and type were passed. A step with op' = "update" is a call
\* of update_record (UpdateRecord, with any of its inputs) on the id arg'.
C13_UpdateUnknownIsNoOp ==
    [][(/\ op' = "update"
        /\ \A i \in 1..Len(records) : records[i].id # arg'[1])
         => /\ ret' = None
            /\ records' = records
            /\ categories' = categories]_vars

\* update_record has been called with the id "zz" on a store of two records with
\* other ids, in which the category "fangzu", one of those the call may pass,
\* is not registered
C13_Witness ==
    /\ op = "update"
    /\ arg = Some("zz")
    /\ ret = None
    /\ Len(records) = 2
    /\ \A i \in 1..Len(records) : records[i].id # "zz"
    /\ "fangzu" \notin DOMAIN categories

\* C14: delete_record(id) leaves exactly the records with another id, with their
\* fields and in their order, leaves the categories alone and raises nothing;
\* when no record has the id the whole store is as before.
C14_DeleteFrame ==
    [][\A id \in IdInputs :
         DeleteRecord(id) =>
           /\ records' = SelectSeq(records, LAMBDA r : r.id # id)
           /\ categories' = categories
           /\ err' = ""
           /\ (\A i \in 1..Len(records) : records[i].id # id) => records' = records]_vars

\* delete_record has removed the first of two records and left the second
C14_Witness ==
    /\ op = "delete"
    /\ before = 2
    /\ Len(records) = 1
    /\ records[1].id # arg[1]
    /\ records[1].id = Uuids[2]

\* C20: the record add_record stores has the category_type passed when that is
\* not empty, whatever type the category is registered with; with an empty
\* category_type it has the type the category is registered with, and "expense"
\* when the category is not registered.
C20_AddResolvesType ==
    [][\A a \in Amounts, c \in CategoryNames, t \in CategoryTypes, d \in Dates :
         AddRecord(a, c, t, d) =>
           LET stored == records'[Len(records')]
           IN  /\ t # "" => stored.category_type = t
               /\ (t = "" /\ c \in DOMAIN categories) =>
                    stored.category_type = categories[c]
               /\ (t = "" /\ c \notin DOMAIN categories) =>
                    stored.category_type = "expense"]_vars

\* add_record has been called with an empty category_type for "gongzi", which a
\* file had registered as "expense" (its default is "income"), and stored the
\* record as "expense": no call of the model passes "expense" itself
C20_Witness ==
    /\ op = "add"
    /\ ret[1].category = "gongzi"
    /\ ret[1].category_type = "expense"
    /\ categories["gongzi"] = "expense"

\* the record and category entries of a file
FileRecords(file) == DictGet(file.data, "records", <<>>)
FileCategories(file) == DictGet(file.data, "categories", <<>>)

\* the entries of the file's category list that name n
EntriesOf(file, n) ==
    {i \in 1..Len(FileCategories(file)) : FileCategories(file)[i]["name"] = n}

\* the mapping a file stands for: the defaults, and over them every category
\* entry of the file, a later entry of a name over an earlier one
CategoriesOfFile(file) ==
    LET names == {FileCategories(file)[i]["name"] : i \in 1..Len(FileCategories(file))}
    IN  [n \in DOMAIN DefaultCategories \cup names |->
           IF EntriesOf(file, n) = {} THEN DefaultCategories[n]
           ELSE LET last == CHOOSE i \in EntriesOf(file, n) :
                              \A j \in EntriesOf(file, n) : j <= i
                IN  DictGet(FileCategories(file)[last], "category_type", "expense")]

\* the record is what the record entry of a file says, but for its id
ParsedFrom(record, entry) ==
    /\ record.amount = entry["amount"]
    /\ record.category = entry["category"]
    /\ record.category_type = DictGet(entry, "category_type", "expense")
    /\ isoformat(record.date) = entry["date"]

\* C15: after an import_json that succeeds, the categories are the 8 defaults
\* overlaid, in the order of the file, by every {name, category_type} entry of the
\* file, and the records are the file's record entries, one record per entry in
\* the order of the file: no record and no category of the store before the call
\* remains, and a category that only a record of the file names is not added.
C15_ImportReplacesState ==
    [][(op' = "import" /\ err' = "") =>
         \A f \in HandFiles :
           ImportHandFile(f) =>
             /\ categories' = CategoriesOfFile(f)
             /\ Len(records') = Len(FileRecords(f))
             /\ \A i \in 1..Len(records') : ParsedFrom(records'[i], FileRecords(f)[i])]_vars

\* import_json has succeeded on a store of two records, on a file whose two
\* records name the category "lvyou" and whose category list does not
C15_Witness ==
    /\ op = "import"
    /\ err = ""
    /\ before = 2
    /\ Len(records) = 2
    /\ records[1].category = "lvyou"
    /\ categories = DefaultCategories

\* the record entry carries an id that from_dict keeps
CarriesId(entry) == "id" \in DOMAIN entry /\ entry["id"] # ""

\* C16: after an import_json that succeeds, the record of every entry with no id
\* or an empty id has an id that is not empty and that no other record of the
\* store has; the record of an entry that carries an id has that id.
C16_ImportFreshIds ==
    [][(op' = "import" /\ err' = "") =>
         \A f \in HandFiles :
           ImportHandFile(f) =>
             /\ Len(records') = Len(FileRecords(f))
             /\ \A i \in 1..Len(records') :
                  IF CarriesId(FileRecords(f)[i])
                  THEN records'[i].id = FileRecords(f)[i]["id"]
                  ELSE /\ records'[i].id # ""
                       /\ \A j \in 1..Len(records') :
                            j # i => records'[j].id # records'[i].id]_vars

\* import_json has read a file with an entry of empty id and an entry of no id:
\* the two records have two uuids
C16_Witness ==
    /\ op = "import"
    /\ err = ""
    /\ Len(records) = 2
    /\ records[1].category_type = "gift"
    /\ records[1].id = Uuids[1]
    /\ records[2].id = Uuids[2]

\* the exceptions import_json raises on a malformed file: json.JSONDecodeError
\* from json.loads, KeyError and ValueError from Record.from_dict
MalformedFile == {"JSONDecodeError", "KeyError", "ValueError"}

\* C17: import_json ends with an error, never with success, when the file is no
\* JSON, when a record entry lacks amount, category or date, or when the date of
\* a record entry is no calendar date.
C17_MalformedFileFails ==
    [][(op' = "import") =>
         \A f \in HandFiles :
           (ImportHandFile(f) /\ (~f.parses \/ HasBadRecord(f))) =>
             err' \in MalformedFile]_vars

\* import_json has raised ValueError: of the hand-written files only the one
\* with the date "2024-13-40" does
C17_Witness ==
    /\ op = "import"
    /\ err = "ValueError"

\* C18 as claimed: the category_type of every stored record and every value of
\* the category mapping is "income" or "expense".
C18_TypesAreIncomeOrExpense ==
    /\ \A i \in 1..Len(records) : records[i].category_type \in {"income", "expense"}
    /\ \A n \in DOMAIN categories : categories[n] \in {"income", "expense"}

\* the list of (name, type) pairs holds every name of the mapping once, with the
\* type the mapping gives it, in ascending order of name
IsListingOf(pairs, cats) ==
    /\ Len(pairs) = Cardinality(DOMAIN cats)
    /\ \A n \in DOMAIN cats : \E i \in 1..Len(pairs) : pairs[i] = <<n, cats[n]>>
    /\ \A i, j \in 1..Len(pairs) : i < j => NameRank(pairs[i][1]) < NameRank(pairs[j][1])

\* C19: get_categories() holds each category name exactly once, with its current
\* type, in ascending order of name, and so does the categories list that
\* export_json writes.
C19_CategoriesSortedOnce ==
    /\ IsListingOf(get_categories(categories), categories)
    /\ (op = "export") =>
         LET written == disk[1].data.categories
         IN  IsListingOf([i \in 1..Len(written) |->
                            <<written[i].name, written[i].category_type>>],
                         categories)

\* export_json has written the category list of a store that holds the 8
\* defaults and the categories "fangzu" and "lvyou"
C19_Witness ==
    /\ op = "export"
    /\ Len(disk[1].data.categories) = 10
    /\ disk[1].data.categories[1].name = "fangzu"
    /\ disk[1].data.categories[2] = [name |-> "lvyou", category_type |-> "expense"]

\* every entry of the mapping but that of the name c is as before the step
OtherEntriesKept(c) ==
    /\ DOMAIN categories' \ {c} = DOMAIN categories \ {c}
    /\ \A n \in DOMAIN categories \ {c} : categories'[n] = categories[n]

\* C21 as claimed: after every add_record, and every update_record on an
\* existing id, with the category c, the mapping holds c with the category_type
\* of the record stored, and every other entry of the mapping is as before.
C21_UpsertAnyName ==
    [][(op' \in {"add", "update"} /\ ret' # None) =>
         LET c == ret'[1].category
         IN  /\ c \in DOMAIN categories'
             /\ categories'[c] = ret'[1].category_type
             /\ OtherEntriesKept(c)]_vars

\* C21: after every add_record, and every update_record on an existing id, with a
\* category c that is not the empty string, the mapping holds c with the
\* category_type of the record stored ("expense" when that type is the empty
\* string), and every other entry of the mapping is as before; with the empty
\* string as category the mapping is as before.
C21_UpsertNonEmptyName ==
    [][(op' \in {"add", "update"} /\ ret' # None) =>
         LET c == ret'[1].category
             t == ret'[1].category_type
         IN  IF c = "" THEN categories' = categories
             ELSE /\ c \in DOMAIN categories'
                  /\ categories'[c] = (IF t # "" THEN t ELSE "expense")
                  /\ OtherEntriesKept(c)]_vars

\* update_record has set a record to the category "fangzu" with the type
\* "income", in a store where an import had registered "gongzi" as "expense":
\* the mapping holds both
C21_Witness ==
    /\ op = "update"
    /\ ret # None
    /\ ret[1].category = "fangzu"
    /\ ret[1].category_type = "income"
    /\ categories["fangzu"] = "income"
    /\ categories["gongzi"] = "expense"

\* C22: update_record on an id that a stored record has sets the amount, the
\* category, the category_type (the one passed, or for an empty one the type
\* registered for the new category, or "expense") and the date of the first
\* record with that id, keeps its id and its place in the list, leaves every
\* other record and the number of records as they were, and returns the record.
C22_UpdateInPlace ==
    [][(op' = "update" /\ ret' # None) =>
         \A id \in {arg'[1]}, a \in Amounts, c \in CategoryNames, t \in CategoryTypes,
            d \in Dates :
           UpdateRecord(id, a, c, t, d) =>
             LET k == CHOOSE i \in 1..Len(records) :
                        /\ records[i].id = id
                        /\ \A j \in 1..(i - 1) : records[j].id # id
                 resolved == IF t # "" THEN t
                             ELSE IF c \in DOMAIN categories THEN categories[c]
                             ELSE "expense"
             IN  /\ Len(records') = Len(records)
                 /\ records'[k] = Record(id, a, c, resolved, d)
                 /\ \A j \in 1..Len(records) : j # k => records'[j] = records[j]
                 /\ ret' = Some(records'[k])]_vars

\* update_record has changed the first of two records, to the amount 2 of the
\* category "fangzu", and left the second, which has another id, in its place
C22_Witness ==
    /\ op = "update"
    /\ ret # None
    /\ Len(records) = 2
    /\ records[1] = ret[1]
    /\ records[1].id = Uuids[1]
    /\ records[1].category = "fangzu"
    /\ records[2].id = Uuids[2]
    /\ records[2].category = "gongzi"

\* C28: when import_json raises while it parses a record entry of the file, the
\* records of the store are those held before the call, whatever became of the
\* category mapping.
C28_FailedParseKeepsRecords ==
    [][(op' = "import" /\ err' # "") =>
         \A f \in HandFiles :
           (ImportHandFile(f) /\ HasBadRecord(f)) => records' = records]_vars

\* import_json has raised ValueError on the second record entry of a file, on a
\* store of two records: the two records are there, and the mapping holds the
\* category "fangzu" of the file
C28_Witness ==
    /\ op = "import"
    /\ err = "ValueError"
    /\ before = 2
    /\ Len(records) = 2
    /\ records[1].id = Uuids[1]
    /\ categories["fangzu"] = "income"

\* C29: each of the 8 names of DEFAULT_CATEGORIES is a key of the category
\* mapping after any sequence of add_record, update_record, delete_record and
\* import_json calls, whatever type it is registered with.
C29_DefaultNamesStay ==
    \A i \in 1..Len(DEFAULT_CATEGORIES) : DEFAULT_CATEGORIES[i][1] \in DOMAIN categories

\* delete_record has removed the only record of the store, after an import had
\* registered "gongzi" as "expense" and an add_record had registered "fangzu":
\* both names are keys of the mapping
C29_Witness ==
    /\ op = "delete"
    /\ before = 1
    /\ records = <<>>
    /\ "fangzu" \in DOMAIN categories
    /\ categories["gongzi"] = "expense"

\* the sum of the amounts of the stored records at the indices S
RECURSIVE SumAt(_)
SumAt(S) ==
    IF S = {} THEN 0
    ELSE LET i == CHOOSE x \in S : TRUE
         IN  records[i].amount + SumAt(S \ {i})

\* the indices of the stored records of a type dated within [start, end], an
\* absent bound being no limit
InPeriod(category_type, start, end) ==
    {i \in 1..Len(records) :
       /\ records[i].category_type = category_type
       /\ start = None \/ DateLE(start[1], records[i].date)
       /\ end = None \/ DateLE(records[i].date, end[1])}

\* C23: summary(start, end) returns as income the sum of the amounts of the
\* stored records of type income dated within [start, end], both bounds
\* included and an absent bound being no limit, and as expense the same sum over
\* the records of type expense.
C23_SummarySums ==
    (op = "summary") =>
        /\ ret[1].income = SumAt(InPeriod("income", arg[1][1], arg[1][2]))
        /\ ret[1].expense = SumAt(InPeriod("expense", arg[1][1], arg[1][2]))

\* summary(D1, D1) has been called on a store with an income on D1 and an income
\* on the day after, and returned the amount of the first as income
C23_Witness ==
    /\ op = "summary"
    /\ arg = Some(<<Some(D1), Some(D1)>>)
    /\ Len(records) = 2
    /\ records[1].date = D1 /\ records[1].category_type = "income"
    /\ records[2].date = D2 /\ records[2].category_type = "income"
    /\ ret[1].income = records[1].amount

\* the indices of the stored records of a type dated in the month with a key
InMonth(category_type, key) ==
    {i \in 1..Len(records) :
       /\ records[i].category_type = category_type
       /\ MonthKey(records[i].date[1], records[i].date[2]) = key}

\* C24 as claimed: the value of each bucket of monthly_trend(months) is the sum
\* of the amounts of the income records dated in its month minus the sum of the
\* amounts of the expense records dated in its month; a record dated outside the
\* window adds no bucket.
C24_BucketIsIncomeMinusExpense ==
    (op = "monthly_trend") =>
        /\ Len(ret) = arg[1][2]
        /\ \A i \in 1..Len(ret) :
             ret[i][2] = SumAt(InMonth("income", ret[i][1]))
                         - SumAt(InMonth("expense", ret[i][1]))

\* the sum of the values of a list of (key, value) pairs
RECURSIVE SumValues(_)
SumValues(pairs) ==
    IF pairs = <<>> THEN 0 ELSE Head(pairs)[2] + SumValues(Tail(pairs))

\* C26 as claimed: the sum of the values monthly_trend(months) returns equals the
\* balance of summary(first day of the oldest month of the window, last day of
\* the current month).
C26_TrendAgreesWithSummary ==
    (op = "monthly_trend") =>
        LET today == arg[1][1]
            months == arg[1][2]
            oldest == today[1] * 12 + (today[2] - 1) - (months - 1)
            first == <<oldest \div 12, (oldest % 12) + 1, 1>>
            last == <<today[1], today[2], DaysInMonth(today[1], today[2])>>
        IN  SumValues(ret) = summary(records, Some(first), Some(last)).balance

\* the indices of the stored records of a type dated in the year and month of a
\* day
InMonthOf(today, category_type) ==
    {i \in 1..Len(records) :
       /\ records[i].date[1] = today[1]
       /\ records[i].date[2] = today[2]
       /\ records[i].category_type = category_type}

\* C25: current_month_breakdown(t) returns one (category, total) pair for each
\* category that has a stored record of type t dated in the year and month of
\* today, total being the sum of the amounts of those records, no pair for any
\* other category, and the pairs in non-increasing order of total.
C25_BreakdownByCategory ==
    (op = "breakdown") =>
        LET S == InMonthOf(arg[1][1], arg[1][2])
            names == {records[i].category : i \in S}
        IN  /\ Len(ret) = Cardinality(names)
            /\ \A c \in names :
                 \E k \in 1..Len(ret) :
                   ret[k] = <<c, SumAt({i \in S : records[i].category = c})>>
            /\ \A j, k \in 1..Len(ret) : j < k => ret[j][2] >= ret[k][2]

\* current_month_breakdown("expense") has been called on a day of January 2024 on
\* a store with an expense of 1 for "gongzi" and an expense of 2 for "fangzu" in
\* that month, and returned "fangzu" first
C25_Witness ==
    /\ op = "breakdown"
    /\ arg = Some(<< <<2024, 1, 31>>, "expense" >>)
    /\ Len(records) = 2
    /\ records[1].category = "gongzi"
    /\ ret = << <<"fangzu", 2>>, <<"gongzi", 1>> >>

\* the ops of the read operations
ReadOps ==
    {"find", "search", "summary", "monthly_trend", "breakdown", "get_categories",
     "export"}

\* C27: a call of find_record, search_records, summary, monthly_trend,
\* current_month_breakdown, get_categories or export_json leaves the list of
\* records, in contents and order, and the category mapping as they were.
C27_ReadsChangeNothing ==
    [][(op' \in ReadOps) => (records' = records /\ categories' = categories)]_vars

\* search_records has returned the two records of the store in the order
\* opposite to the one they are stored in
C27_Witness ==
    /\ op = "search"
    /\ Len(records) = 2
    /\ records[1].date = D1
    /\ records[2].date = D2
    /\ ret = <<records[2], records[1]>>

\* C30 as claimed: every save_record call whose inputs pass the validation leaves
\* a record that holds the submitted values, and the editing_record_id it finds
\* is None or the id of a record of the store.
C30_SaveNeverStale ==
    [][(op' = "save") =>
         \A a \in AppAmounts, c \in AppCategories, t \in AppTypes, d \in Dates :
           (a >= 0 /\ c # "" /\ SaveRecord(a, c, t, d)) =>
             /\ \E i \in 1..Len(records') :
                  /\ records'[i].amount = a
                  /\ records'[i].category = c
                  /\ records'[i].category_type = t
                  /\ records'[i].date = d
             /\ editing_record_id # None =>
                  find_record(records, editing_record_id[1]) # None]_vars

====
